---------------------------- MODULE Spec2Model ----------------------------
(***************************************************************************)
(* A model of rag-customer-support's text core:                            *)
(*   - utils/helpers.py          chunk_text (sliding-window chunker)       *)
(*   - utils/markdown_parser.py  MarkdownParser (line classifier)          *)
(*   - data_collection/web_scraper.py  WebScraper (HTML to Markdown)       *)
(* Strings are sequences of one-character strings, so that splitting,      *)
(* trimming, joining and pattern matching are computed, not assumed.       *)
(***************************************************************************)
EXTENDS Integers, Sequences, FiniteSets, TLC

(***************************************************************************)
(* Bounds of the model.                                                    *)
(***************************************************************************)
\* longest enumerated chunker text, in characters
MaxTextLen == 5
\* largest chunk_size / overlap argument tried
MaxSize == 4
\* loop iterations after which a non-terminating chunk_text run is cut off
MaxIter == 6
\* most lines of a document parsed with the default configuration
MaxLines == 3
\* most lines of a document parsed with a configuration file
MaxConfigLines == 1
\* most entries of a configuration file's markdown_elements mapping
MaxRules == 2
\* most children of an enumerated paragraph or div of an HTML document
MaxKids == 2
\* most rows of an enumerated HTML table
MaxRows == 2
\* most cells of a row of an enumerated HTML table
MaxCells == 2
\* most lines of a document whose parser is asked for its analytics
MaxStatLines == 2
\* most start URLs of a scrape
MaxUrls == 2

(***************************************************************************)
(* Generic helpers.                                                        *)
(***************************************************************************)
Min(a, b) == IF a < b THEN a ELSE b

Max(a, b) == IF a > b THEN a ELSE b

\* every sequence over S of length at most n
SeqsUpTo(S, n) == UNION {[1..k -> S] : k \in 0..n}

\* the characters str.isspace() / regex \s accept, among those the model uses
Whitespace == {" ", "\t", "\n"}

IsSpace(c) == c \in Whitespace

(***************************************************************************)
(* Python built-ins used by chunk_text.                                    *)
(***************************************************************************)
RECURSIVE SplitFrom(_, _, _)
\* str.split() with no argument: maximal runs of non-whitespace characters
SplitFrom(s, i, cur) ==
  IF i > Len(s)
  THEN IF cur = <<>> THEN <<>> ELSE <<cur>>
  ELSE IF IsSpace(s[i])
       THEN IF cur = <<>>
            THEN SplitFrom(s, i + 1, <<>>)
            ELSE <<cur>> \o SplitFrom(s, i + 1, <<>>)
       ELSE SplitFrom(s, i + 1, Append(cur, s[i]))

SplitWords(s) == SplitFrom(s, 1, <<>>)

RECURSIVE JoinWith(_, _)
\* sep.join(parts)
JoinWith(sep, parts) ==
  IF Len(parts) = 0 THEN <<>>
  ELSE IF Len(parts) = 1 THEN parts[1]
  ELSE parts[1] \o sep \o JoinWith(sep, Tail(parts))

JoinSpaceNoSep(parts) == JoinWith(<<>>, parts)

\* " ".join(parts)
JoinSpace(parts) == JoinWith(<<" ">>, parts)

\* a slice index of Python clamped into 0..n (negative indices count from the end)
SliceIndex(i, n) == IF i < 0 THEN Max(i + n, 0) ELSE Min(i, n)

PySliceShort(seq, lo, hi) ==
  SubSeq(seq, SliceIndex(lo, Len(seq)) + 1, SliceIndex(hi, Len(seq)) - 1)

\* seq[lo:hi] (0-based, hi exclusive)
PySlice(seq, lo, hi) ==
  SubSeq(seq, SliceIndex(lo, Len(seq)) + 1, SliceIndex(hi, Len(seq)))

(***************************************************************************)
(* chunk_text(text, chunk_size, overlap)                                   *)
(***************************************************************************)
VARIABLES
  text,         \* argument: the text to be chunked
  chunk_size,   \* argument
  overlap,      \* argument
  words,        \* local: text.split()
  total_words,  \* local: len(words)
  start,        \* local: start offset of the next chunk
  chunks,       \* local: the list returned
  cpc           \* position in chunk_text: "call", "loop", "done"

chunkVars == <<text, chunk_size, overlap, words, total_words, start, chunks, cpc>>

(***************************************************************************)
(* MarkdownParser(content, config_path)                                    *)
(***************************************************************************)
VARIABLES
  content,            \* self.content
  config,             \* self.config["markdown_elements"]: ordered (element, pattern) pairs
  compiled_patterns,  \* self.compiled_patterns: ordered (element, pattern) pairs
  lines,              \* _parse_markdown: self.content.split("\n")
  pos,                \* _parse_markdown: number of lines the for loop has consumed
  line,               \* _parse_markdown: the current line, right-stripped
  matched,            \* _parse_markdown: whether a pattern matched the current line
  rule_idx,           \* _parse_markdown: position of the pattern the inner loop broke at (0: none)
  current_parent,     \* _parse_markdown: <<>> for None, <<text>> for a header text
  elements,           \* self.elements
  ppc,                \* position in __init__: "compile", "enter", "parse", "done", "raised"
  stats,              \* get_statistics(): <<>> before the call, <<the dictionary returned>> after
  updated_content,    \* replace_links(replacement): <<>> before the call, <<the text returned>> after
  source              \* <<>>, or <<text>> when self.content is extract_plain_text() of a parser of text

\* the results of the analytics operations called on a constructed parser
statVars == <<stats, updated_content, source>>

parseVars == <<content, config, compiled_patterns, lines, pos, line, matched,
               rule_idx, current_parent, elements, ppc, statVars>>

(***************************************************************************)
(* WebScraper._parse_content(html, base_url)                               *)
(***************************************************************************)
VARIABLES
  html,              \* argument: the page, as the tree html.parser builds from it
  soup,              \* _parse_content: BeautifulSoup(html, "html.parser")
  base_url,          \* argument
  stack,             \* the pending _html_to_markdown calls, innermost first
  markdown_lines,    \* _parse_content: the accumulator of lines
  metadata,          \* _parse_content: images, tables, urls
  markdown_content,  \* _parse_content: "\n".join(markdown_lines)
  vpc                \* position in _parse_content: "call", "walk", "done", "raised"

(***************************************************************************)
(* WebScraper.scrape()                                                     *)
(***************************************************************************)
VARIABLES
  start_urls,  \* self.start_urls
  responses,   \* what requests.get and raise_for_status give for each start URL:
               \* <<>> for a RequestException, <<page>> for the text of a response
  url_idx,     \* scrape: number of start URLs the for loop has finished
  documents,   \* scrape: the list returned
  spc          \* position in scrape: "call", "loop", "parse", "done", "raised"

scrapeVars == <<start_urls, responses, url_idx, documents, spc>>

convVars == <<html, soup, base_url, stack, markdown_lines, metadata, markdown_content, vpc,
              scrapeVars>>

\* no scrape call is running
ScrapeIdle ==
  /\ start_urls = <<>>
  /\ responses = <<>>
  /\ url_idx = 0
  /\ documents = <<>>
  /\ spc = "idle"

vars == <<chunkVars, parseVars, convVars>>

\* no _parse_content call is running
ConvIdle ==
  /\ html = <<>>
  /\ soup = <<>>
  /\ base_url = <<>>
  /\ stack = <<>>
  /\ markdown_lines = <<>>
  /\ metadata = <<>>
  /\ markdown_content = <<>>
  /\ vpc = "idle"
  /\ ScrapeIdle

\* no MarkdownParser is being constructed
ParseIdle ==
  /\ content = <<>>
  /\ config = <<>>
  /\ compiled_patterns = <<>>
  /\ lines = <<>>
  /\ pos = 0
  /\ line = <<>>
  /\ matched = FALSE
  /\ rule_idx = 0
  /\ current_parent = <<>>
  /\ elements = <<>>
  /\ ppc = "idle"
  /\ stats = <<>>
  /\ updated_content = <<>>
  /\ source = <<>>

\* no chunk_text call is running
ChunkIdle ==
  /\ text = <<>>
  /\ chunk_size = 0
  /\ overlap = 0
  /\ words = <<>>
  /\ total_words = 0
  /\ start = 0
  /\ chunks = <<>>
  /\ cpc = "idle"

ChunkAlphabet == {"a", "b", " "}

\* the texts of the documented examples, beside the enumerated ones
ScenarioTexts ==
  { <<"a", " ", "b", " ", "c", " ", "d", " ", "e">>,
    <<" ", "a", "\n", "\t", "b", " ">> }

ChunkTexts == SeqsUpTo(ChunkAlphabet, MaxTextLen) \cup ScenarioTexts

ChunkSizes == 0..MaxSize

Overlaps == (0 - 1)..MaxSize

\* size > overlap >= 0: the configurations the contract admits
ValidCfg == chunk_size > overlap /\ overlap >= 0

InitChunk ==
  /\ text \in ChunkTexts
  /\ chunk_size \in ChunkSizes
  /\ overlap \in Overlaps
  /\ words = <<>>
  /\ total_words = 0
  /\ start = 0
  /\ chunks = <<>>
  /\ cpc = "call"
  /\ ParseIdle
  /\ ConvIdle

LoopCondInclusive(s, n) == s <= n

\* while start < total_words
LoopCond(s, n) == s < n

\* end = min(start + chunk_size, total_words)
ChunkEnd(s, size, n) == Min(s + size, n)

NextStartStalls(s, size, ov) == s + Max(size - ov - 1, 0)

\* start += chunk_size - overlap
NextStart(s, size, ov) == s + (size - ov)

\* lines 30-33: no argument is validated; the locals are set up
ChunkEnter ==
  /\ cpc = "call"
  /\ words' = SplitWords(text)
  /\ total_words' = Len(SplitWords(text))
  /\ chunks' = <<>>
  /\ start' = 0
  /\ cpc' = "loop"
  /\ UNCHANGED <<text, chunk_size, overlap>>
  /\ UNCHANGED <<parseVars, convVars>>

\* lines 35-39: one iteration of the loop
ChunkLoop ==
  /\ cpc = "loop"
  /\ LoopCond(start, total_words)
  /\ Len(chunks) < MaxIter
  /\ chunks' = Append(chunks,
        JoinSpace(PySlice(words, start, ChunkEnd(start, chunk_size, total_words))))
  /\ start' = NextStart(start, chunk_size, overlap)
  /\ UNCHANGED <<text, chunk_size, overlap, words, total_words, cpc>>
  /\ UNCHANGED <<parseVars, convVars>>

\* line 41: the loop condition is false, chunks is returned
ChunkReturn ==
  /\ cpc = "loop"
  /\ ~LoopCond(start, total_words)
  /\ cpc' = "done"
  /\ UNCHANGED <<text, chunk_size, overlap, words, total_words, start, chunks>>
  /\ UNCHANGED <<parseVars, convVars>>

NextChunk ==
  \/ ChunkEnter
  \/ ChunkLoop
  \/ ChunkReturn

SpecChunk == InitChunk /\ [][NextChunk]_vars

\* the interpreter keeps running a call that can take a step
SpecChunkFair == SpecChunk /\ WF_vars(NextChunk)

(***************************************************************************)
(* Claims about chunk_text.                                                *)
(***************************************************************************)
FirstN(s, k) == SubSeq(s, 1, Min(k, Len(s)))

LastN(s, k) == SubSeq(s, Max(Len(s) - k, 0) + 1, Len(s))

DropN(s, k) == SubSeq(s, Min(k, Len(s)) + 1, Len(s))

RECURSIVE Flatten(_)
Flatten(ss) == IF Len(ss) = 0 THEN <<>> ELSE ss[1] \o Flatten(Tail(ss))

\* the words of a returned chunk
ChunkWords(c) == SplitWords(c)

\* the last k words of chunk a are the first k words of chunk b
SharesExactly(a, b, k) ==
  /\ Len(ChunkWords(a)) >= k
  /\ Len(ChunkWords(b)) >= k
  /\ LastN(ChunkWords(a), k) = FirstN(ChunkWords(b), k)

\* C1 (as claimed): a call with overlap >= size fails with InvalidConfiguration:
\* it never appends a chunk and never returns a chunk list.
C1_InvalidConfigurationFails ==
  overlap >= chunk_size => (chunks = <<>> /\ cpc # "done")

\* C2 (as claimed): with size > overlap >= 0, every successive pair of returned
\* chunks shares exactly `overlap` words, except a pair whose later chunk is the
\* final chunk.
C2_PairsShareOverlapExceptLast ==
  (ValidCfg /\ cpc = "done") =>
    \A i \in 1..(Len(chunks) - 1) :
      \/ i + 1 = Len(chunks)
      \/ SharesExactly(chunks[i], chunks[i + 1], overlap)

\* C2 (amended): with size > overlap >= 0, every successive pair whose earlier
\* chunk is full (has `size` words) shares exactly `overlap` words; when the
\* earlier chunk was already cut short by the end of the text (which can happen
\* for several pairs, not only the last one) the later chunk has fewer than
\* `overlap` words and is the earlier chunk without its first size-overlap words.
C2_FullPairsShareOverlap ==
  ValidCfg =>
    \A i \in 1..(Len(chunks) - 1) :
      IF Len(ChunkWords(chunks[i])) = chunk_size
      THEN SharesExactly(chunks[i], chunks[i + 1], overlap)
      ELSE /\ Len(ChunkWords(chunks[i])) < chunk_size
           /\ Len(ChunkWords(chunks[i + 1])) < overlap
           /\ ChunkWords(chunks[i + 1])
                = DropN(ChunkWords(chunks[i]), chunk_size - overlap)

\* a returned list in which a pair that is not the last one has a short earlier chunk
C2_Witness ==
  /\ ValidCfg
  /\ cpc = "done"
  /\ \E i \in 1..(Len(chunks) - 2) :
       /\ Len(ChunkWords(chunks[i])) < chunk_size
       /\ ~SharesExactly(chunks[i], chunks[i + 1], overlap)
  /\ \E i \in 1..(Len(chunks) - 1) :
       /\ Len(ChunkWords(chunks[i])) = chunk_size
       /\ overlap > 0

\* the chunk list the contract describes: one chunk per start offset
\* 0, stride, 2*stride, ... below the word count
ExpectedChunks ==
  LET w == SplitWords(text)
      n == Len(w)
      stride == chunk_size - overlap
      cnt == (n + stride - 1) \div stride
  IN [k \in 1..cnt |->
        JoinSpace(SubSeq(w, (k - 1) * stride + 1,
                         Min((k - 1) * stride + chunk_size, n)))]

ScenarioChunks ==
  << <<"a", " ", "b", " ", "c">>, <<"c", " ", "d", " ", "e">>, <<"e">> >>

IsScenarioCall ==
  /\ text = <<"a", " ", "b", " ", "c", " ", "d", " ", "e">>
  /\ chunk_size = 3
  /\ overlap = 1

\* C3: with size > overlap >= 0 the chunks are, in order, the words
\* s .. min(s+size, n)-1 joined by single spaces for s = 0, stride, 2*stride, ...
\* below n, and nothing else; a text without words gives the empty list;
\* chunk("a b c d e", 3, 1) = ["a b c", "c d e", "e"].
C3_ChunksAreTheWindows ==
  (ValidCfg /\ cpc # "call") =>
    /\ Len(chunks) <= Len(ExpectedChunks)
    /\ chunks = SubSeq(ExpectedChunks, 1, Len(chunks))
    /\ cpc = "done" => chunks = ExpectedChunks
    /\ (cpc = "done" /\ SplitWords(text) = <<>>) => chunks = <<>>
    /\ (cpc = "done" /\ IsScenarioCall) => chunks = ScenarioChunks

C3_Witness == cpc = "done" /\ IsScenarioCall /\ chunks = ScenarioChunks

\* C4: with size > overlap >= 0 the start offset strictly increases at each loop
\* iteration, the loop ends as soon as the start offset is >= the word count
\* (no further chunk is appended), and every run reaches the return.
C4_StartIncreasesAndTerminates ==
  /\ [][(ValidCfg /\ cpc = "loop" /\ cpc' = "loop") => start' > start]_vars
  /\ [][(ValidCfg /\ cpc = "loop" /\ start >= total_words)
          => (cpc' = "done" /\ chunks' = chunks)]_vars
  /\ [][(ValidCfg /\ cpc' = "done") => start >= total_words]_vars
  /\ (ValidCfg => <>(cpc = "done"))

C4_Witness == ValidCfg /\ cpc = "done" /\ Len(chunks) >= 3 /\ start > total_words

\* C5: with size > overlap >= 0, the first chunk whole followed by each later
\* chunk without the words it shares with its predecessor, and equally the first
\* size-overlap words of every chunk, concatenate to exactly the word sequence
\* of the text.
C5_SpansReconstructWords ==
  (ValidCfg /\ cpc = "done") =>
    /\ Flatten([i \in 1..Len(chunks) |->
                  FirstN(ChunkWords(chunks[i]), chunk_size - overlap)])
         = SplitWords(text)
    /\ Flatten([i \in 1..Len(chunks) |->
                  IF i = 1 THEN ChunkWords(chunks[i])
                  ELSE DropN(ChunkWords(chunks[i]), overlap)])
         = SplitWords(text)

C5_Witness ==
  /\ ValidCfg
  /\ cpc = "done"
  /\ overlap >= 1
  /\ Len(chunks) >= 3
  /\ Len(SplitWords(text)) >= 3

(***************************************************************************)
(* Python string methods and the regular expressions of the pattern table. *)
(* Each pattern is matched as re.Pattern.match does: anchored at the start *)
(* of the line, the groups being those of the leftmost alternative the     *)
(* backtracking matcher accepts.                                           *)
(***************************************************************************)
RECURSIVE RStrip(_)
\* str.rstrip()
RStrip(s) ==
  IF s = <<>> THEN s
  ELSE IF IsSpace(s[Len(s)]) THEN RStrip(SubSeq(s, 1, Len(s) - 1)) ELSE s

RECURSIVE LStrip(_)
\* str.lstrip()
LStrip(s) ==
  IF s = <<>> THEN s
  ELSE IF IsSpace(s[1]) THEN LStrip(Tail(s)) ELSE s

\* str.strip()
Strip(s) == LStrip(RStrip(s))

RECURSIVE SplitLinesFrom(_, _, _)
\* str.split("\n"): every "\n" ends a piece, empty pieces are kept
SplitLinesFrom(s, i, cur) ==
  IF i > Len(s) THEN <<cur>>
  ELSE IF s[i] = "\n"
       THEN <<cur>> \o SplitLinesFrom(s, i + 1, <<>>)
       ELSE SplitLinesFrom(s, i + 1, Append(cur, s[i]))

SplitLines(s) == SplitLinesFrom(s, 1, <<>>)

\* the character at 1-based index i, "" past the end
CharAt(s, i) == IF i \in 1..Len(s) THEN s[i] ELSE ""

RECURSIVE CountRun(_, _, _)
\* the length of the longest run of characters of S that starts at index i
CountRun(s, i, S) ==
  IF i \in 1..Len(s) /\ s[i] \in S THEN 1 + CountRun(s, i + 1, S) ELSE 0

\* the smallest member of a non-empty set of integers
Least(S) == CHOOSE x \in S : \A y \in S : x <= y

Digits == {"0", "1", "2", "3", "4", "5", "6", "7", "8", "9"}

\* a match object: whether the pattern matched, and its capture groups 1, 2, ...
NoMatch == [m |-> FALSE, g |-> <<>>]

\* ^(#{1,6})\s+(.*)
MatchHeader(ln) ==
  LET h == CountRun(ln, 1, {"#"})
      w == CountRun(ln, h + 1, Whitespace)
  IN IF h \in 1..6 /\ w >= 1
     THEN [m |-> TRUE, g |-> <<SubSeq(ln, 1, h), SubSeq(ln, h + w + 1, Len(ln))>>]
     ELSE NoMatch

\* ^(\d+\.)\s+(.*)
MatchOrderedList(ln) ==
  LET d == CountRun(ln, 1, Digits)
      w == CountRun(ln, d + 2, Whitespace)
  IN IF d >= 1 /\ CharAt(ln, d + 1) = "." /\ w >= 1
     THEN [m |-> TRUE, g |-> <<SubSeq(ln, 1, d + 1), SubSeq(ln, d + w + 2, Len(ln))>>]
     ELSE NoMatch

\* ^([-*+])\s+(.*)
MatchUnorderedList(ln) ==
  LET w == CountRun(ln, 2, Whitespace)
  IN IF CharAt(ln, 1) \in {"-", "*", "+"} /\ w >= 1
     THEN [m |-> TRUE, g |-> <<SubSeq(ln, 1, 1), SubSeq(ln, w + 2, Len(ln))>>]
     ELSE NoMatch

\* \[.*?\]\((.*?)\) matched from index i: the lazy .*? stops at the first "](",
\* the lazy group at the first ")" after it
MatchBracketAt(ln, i) ==
  LET J == {j \in (i + 1)..Len(ln) : ln[j] = "]" /\ CharAt(ln, j + 1) = "("}
  IN IF CharAt(ln, i) # "[" \/ J = {} THEN NoMatch
     ELSE LET j == Least(J)
              K == {k \in (j + 2)..Len(ln) : ln[k] = ")"}
          IN IF K = {} THEN NoMatch
             ELSE [m |-> TRUE, g |-> <<SubSeq(ln, j + 2, Least(K) - 1)>>]

\* !\[.*?\]\((.*?)\)
MatchImage(ln) == IF CharAt(ln, 1) = "!" THEN MatchBracketAt(ln, 2) ELSE NoMatch

\* \[.*?\]\((.*?)\)
MatchLink(ln) == MatchBracketAt(ln, 1)

\* ^(?!#{1,6}\s|[-*+]\s|\d+\.\s|!\[.*?\]\(.*?\)|\[.*?\]\(.*?\)).+
MatchParagraph(ln) ==
  LET h == CountRun(ln, 1, {"#"})
      d == CountRun(ln, 1, Digits)
      ahead ==
        \/ h \in 1..6 /\ IsSpace(CharAt(ln, h + 1))
        \/ CharAt(ln, 1) \in {"-", "*", "+"} /\ IsSpace(CharAt(ln, 2))
        \/ d >= 1 /\ CharAt(ln, d + 1) = "." /\ IsSpace(CharAt(ln, d + 2))
        \/ MatchImage(ln).m
        \/ MatchLink(ln).m
  IN IF ~ahead /\ Len(ln) >= 1 THEN [m |-> TRUE, g |-> <<>>] ELSE NoMatch

\* .+  (a configured pattern without groups)
MatchAnyText(ln) == IF Len(ln) >= 1 THEN [m |-> TRUE, g |-> <<>>] ELSE NoMatch

\* ^>\s+(.*)  (a configured pattern of a custom element kind)
MatchBlockquote(ln) ==
  LET w == CountRun(ln, 2, Whitespace)
  IN IF CharAt(ln, 1) = ">" /\ w >= 1
     THEN [m |-> TRUE, g |-> <<SubSeq(ln, w + 2, Len(ln))>>]
     ELSE NoMatch

\* re.compile raises re.error on the pattern "[(" (an unterminated set)
Compiles(pattern) == pattern # "re_invalid"

\* pattern.match(line)
Match(pattern, ln) ==
  CASE pattern = "re_header" -> MatchHeader(ln)
    [] pattern = "re_ordered_list" -> MatchOrderedList(ln)
    [] pattern = "re_unordered_list" -> MatchUnorderedList(ln)
    [] pattern = "re_image" -> MatchImage(ln)
    [] pattern = "re_link" -> MatchLink(ln)
    [] pattern = "re_paragraph" -> MatchParagraph(ln)
    [] pattern = "re_any_text" -> MatchAnyText(ln)
    [] pattern = "re_blockquote" -> MatchBlockquote(ln)
    [] OTHER -> NoMatch

(***************************************************************************)
(* MarkdownParser.__init__: _load_config, _compile_patterns,               *)
(* _parse_markdown.                                                        *)
(***************************************************************************)
Rule(e, p) == [element |-> e, pattern |-> p]

\* default_config["markdown_elements"], in insertion order
DefaultConfig ==
  << Rule("header", "re_header"),
     Rule("ordered_list", "re_ordered_list"),
     Rule("unordered_list", "re_unordered_list"),
     Rule("image", "re_image"),
     Rule("link", "re_link"),
     Rule("paragraph", "re_paragraph") >>

\* the entries a YAML configuration file is drawn from: built-in kinds with their
\* default pattern, a paragraph and an image rule rewritten as ".+", a custom
\* kind, and a pattern that does not compile
ConfigRules ==
  { Rule("header", "re_header"),
    Rule("unordered_list", "re_unordered_list"),
    Rule("link", "re_link"),
    Rule("link", "re_invalid"),
    Rule("paragraph", "re_paragraph"),
    Rule("paragraph", "re_any_text"),
    Rule("image", "re_any_text"),
    Rule("blockquote", "re_blockquote") }

\* a mapping has each key once
DistinctKeys(t) == \A i, j \in 1..Len(t) : t[i].element = t[j].element => i = j

ConfigTables == {t \in SeqsUpTo(ConfigRules, MaxRules) : DistinctKeys(t)}

\* configuration files of three entries, one of which does not compile
InvalidRuleTables ==
  { << Rule("link", "re_invalid"), Rule("unordered_list", "re_unordered_list"),
       Rule("header", "re_header") >>,
    << Rule("header", "re_header"), Rule("link", "re_invalid"),
       Rule("paragraph", "re_any_text") >> }

\* source lines of the documents parsed with the default configuration
LineSamples ==
  { <<"#", " ", "T">>, <<"#", "#", " ", "U">>, <<"#", "x">>, <<"#", "#", "#", "#", "#", "#", "#", " ", "h">>, <<"-", " ", "i">>, <<"1", ".", " ", "o">>,
    <<"!", "[", "a", "]", "(", "u", ")">>, <<"[", "a", "]", "(", "u", ")">>, <<"[", "a", "]", "(", ")">>, <<"x", " ", "[", "a", "]", "(", "u", ")">>, <<" ", "#", " ", "T", " ">>,
    <<"t", "x", "t">>, <<>>, <<" ", "\t">> }

\* source lines of the documents parsed with a configuration file
ConfigLineSamples ==
  { <<"#", " ", "T">>, <<"-", " ", "i">>, <<"[", "a", "]", "(", "u", ")">>, <<">", " ", "q">>, <<"t", "x", "t">>, <<>> }

\* the documents whose lines are drawn from S, at most n lines
Documents(S, n) == {JoinWith(<<"\n">>, ls) : ls \in SeqsUpTo(S, n)}

None == <<>>

Some(x) == <<x>>

HeaderTypes ==
  << "header_level_1", "header_level_2", "header_level_3",
     "header_level_4", "header_level_5", "header_level_6" >>

\* f"header_level_{header_level}"
HeaderType(level) == HeaderTypes[level]

Element(t, c, p) == [type |-> t, content |-> c, parent |-> p]

InitParse ==
  /\ \/ config = DefaultConfig /\ content \in Documents(LineSamples, MaxLines)
     \/ config \in ConfigTables \cup InvalidRuleTables
          /\ content \in Documents(ConfigLineSamples, MaxConfigLines)
  /\ compiled_patterns = <<>>
  /\ lines = <<>>
  /\ pos = 0
  /\ line = <<>>
  /\ matched = FALSE
  /\ rule_idx = 0
  /\ current_parent = None
  /\ elements = <<>>
  /\ ppc = "compile"
  /\ stats = <<>>
  /\ updated_content = <<>>
  /\ source = <<>>
  /\ ChunkIdle
  /\ ConvIdle

RECURSIVE CompileUntilInvalid(_)
CompileUntilInvalid(cfg) ==
  IF cfg = <<>> THEN <<>>
  ELSE IF Compiles(Head(cfg).pattern)
       THEN <<Head(cfg)>> \o CompileUntilInvalid(Tail(cfg))
       ELSE <<>>

RECURSIVE CompileValid(_)
\* _compile_patterns: the entries whose pattern compiles, in the order of the
\* mapping; an entry whose pattern raises re.error is logged and left out
CompileValid(cfg) ==
  IF cfg = <<>> THEN <<>>
  ELSE (IF Compiles(Head(cfg).pattern) THEN <<Head(cfg)>> ELSE <<>>)
         \o CompileValid(Tail(cfg))

RECURSIVE TryRulesLast(_, _, _)
TryRulesLast(ln, pats, i) ==
  IF i > Len(pats) THEN 0
  ELSE IF TryRulesLast(ln, pats, i + 1) # 0 THEN TryRulesLast(ln, pats, i + 1)
  ELSE IF Match(pats[i].pattern, ln).m THEN i
  ELSE 0

RECURSIVE TryRulesFrom(_, _, _)
\* the inner for loop: the position of the first pattern, from position i on,
\* that matches, where the loop breaks; 0 when the loop runs to its end
TryRulesFrom(ln, pats, i) ==
  IF i > Len(pats) THEN 0
  ELSE IF Match(pats[i].pattern, ln).m THEN i
  ELSE TryRulesFrom(ln, pats, i + 1)

\* the number of capture groups the branch of an element kind reads
GroupsRead(element) ==
  CASE element = "header" -> 2
    [] element \in {"ordered_list", "unordered_list"} -> 2
    [] element \in {"image", "link"} -> 1
    [] OTHER -> 0

\* match.group(k) raises IndexError when the pattern has fewer than k groups
GroupRaises(element, mt) == GroupsRead(element) > Len(mt.g)

NewParentKept(cur, header_text) == cur

\* current_parent = header_text
NewParent(cur, header_text) == Some(header_text)

\* "parent": None of a header element
HeaderParent(cur) == None

\* the if/elif chain of a matched line: the elements it appends (none for an
\* element kind the chain does not name)
Emit(element, mt, ln, cur) ==
  CASE element = "header" ->
         <<Element(HeaderType(Len(mt.g[1])), Strip(mt.g[2]), HeaderParent(cur))>>
    [] element \in {"ordered_list", "unordered_list"} ->
         <<Element(element, Strip(mt.g[2]), cur)>>
    [] element = "image" -> <<Element("image", Strip(mt.g[1]), cur)>>
    [] element = "link" -> <<Element("link", Strip(mt.g[1]), cur)>>
    [] element = "paragraph" -> <<Element("paragraph", Strip(ln), cur)>>
    [] OTHER -> <<>>

\* the element appended for a line no pattern matched
DefaultParagraph(ln, cur) == Element("paragraph", Strip(ln), cur)

BlankCheckMissing(ln) == FALSE

\* if not line.strip(): continue
IsBlank(ln) == Strip(ln) = <<>>

\* __init__: self.compiled_patterns = self._compile_patterns()
CompilePatterns ==
  /\ ppc = "compile"
  /\ compiled_patterns' = CompileValid(config)
  /\ ppc' = "enter"
  /\ UNCHANGED <<content, config, lines, pos, line, matched, rule_idx,
                 current_parent, elements>>
  /\ UNCHANGED <<statVars, chunkVars, convVars>>

\* _parse_markdown, lines 103-106
ParseEnter ==
  /\ ppc = "enter"
  /\ elements' = <<>>
  /\ current_parent' = None
  /\ lines' = SplitLines(content)
  /\ pos' = 0
  /\ ppc' = "parse"
  /\ UNCHANGED <<content, config, compiled_patterns, line, matched, rule_idx>>
  /\ UNCHANGED <<statVars, chunkVars, convVars>>

\* _parse_markdown, lines 107-176: one iteration of the loop over the lines
ParseLine ==
  /\ ppc = "parse"
  /\ pos < Len(lines)
  /\ pos' = pos + 1
  /\ LET ln == RStrip(lines[pos + 1])
         idx == TryRulesFrom(ln, compiled_patterns, 1)
     IN /\ line' = ln
        /\ IF IsBlank(ln)
           THEN UNCHANGED <<matched, rule_idx, current_parent, elements, ppc>>
           ELSE IF idx = 0
           THEN /\ matched' = FALSE
                /\ rule_idx' = 0
                /\ elements' = Append(elements, DefaultParagraph(ln, current_parent))
                /\ UNCHANGED <<current_parent, ppc>>
           ELSE LET rule == compiled_patterns[idx]
                    mt == Match(rule.pattern, ln)
                IN IF GroupRaises(rule.element, mt)
                   THEN /\ ppc' = "raised"
                        /\ matched' = FALSE
                        /\ rule_idx' = idx
                        /\ UNCHANGED <<current_parent, elements>>
                   ELSE /\ matched' = TRUE
                        /\ rule_idx' = idx
                        /\ elements' =
                             elements \o Emit(rule.element, mt, ln, current_parent)
                        /\ current_parent' =
                             IF rule.element = "header"
                             THEN NewParent(current_parent, Strip(mt.g[2]))
                             ELSE current_parent
                        /\ UNCHANGED ppc
  /\ UNCHANGED <<content, config, compiled_patterns, lines>>
  /\ UNCHANGED <<statVars, chunkVars, convVars>>

\* _parse_markdown, lines 178-179: the loop is over, elements is returned
ParseReturn ==
  /\ ppc = "parse"
  /\ pos = Len(lines)
  /\ ppc' = "done"
  /\ UNCHANGED <<content, config, compiled_patterns, lines, pos, line, matched,
                 rule_idx, current_parent, elements>>
  /\ UNCHANGED <<statVars, chunkVars, convVars>>

NextParse ==
  \/ CompilePatterns
  \/ ParseEnter
  \/ ParseLine
  \/ ParseReturn

SpecParse == InitParse /\ [][NextParse]_vars

(***************************************************************************)
(* Claims about MarkdownParser._parse_markdown.                            *)
(***************************************************************************)
IsHeaderElement(e) == \E k \in 1..Len(HeaderTypes) : e.type = HeaderTypes[k]

\* the positions of the header elements before position i
HeadersBefore(i) == {j \in 1..(i - 1) : IsHeaderElement(elements[j])}

Greatest(S) == CHOOSE x \in S : \A y \in S : x >= y

\* the lines consumed so far that are not blank
NonBlankConsumed == {k \in 1..pos : ~IsBlank(lines[k])}

\* C6: every header element has parent None, and every other element has as
\* parent the content of the nearest header element before it, whatever the
\* levels of the headers (None when no header precedes it).
C6_ParentIsNearestHeader ==
  \A i \in 1..Len(elements) :
    IF IsHeaderElement(elements[i])
    THEN elements[i].parent = None
    ELSE elements[i].parent =
           IF HeadersBefore(i) = {} THEN None
           ELSE Some(elements[Greatest(HeadersBefore(i))].content)

\* a deeper header, then a shallower one with another text, then a list item
\* attached to the shallower one; and an element before any header
C6_Witness ==
  /\ ppc = "done"
  /\ Len(elements) = 3
  /\ elements[1].type = "header_level_2"
  /\ elements[2].type = "header_level_1"
  /\ elements[1].content # elements[2].content
  /\ elements[3].type = "unordered_list"
  /\ elements[3].parent = Some(elements[2].content)

\* C7 (as claimed): for every pattern table, parse emits exactly one element
\* per non-blank line: no non-blank line is dropped.
C7_OneElementPerNonBlankLine ==
  ppc \in {"parse", "done"} => Len(elements) = Cardinality(NonBlankConsumed)

\* C8 (as claimed): every element has content that is non-empty after trimming.
C8_ContentNeverEmpty ==
  \A i \in 1..Len(elements) : Strip(elements[i].content) # <<>>

\* C8 (amended): every header, list-item and paragraph element has content that
\* is non-empty after trimming; the content of an image or link element is the
\* trimmed text between the parentheses, which is empty for "![alt]()" and
\* "[text]()".
C8_TextContentNeverEmpty ==
  \A i \in 1..Len(elements) :
    /\ elements[i].content = Strip(elements[i].content)
    /\ elements[i].type \notin {"image", "link"} => elements[i].content # <<>>
    /\ elements[i].type = "link" =>
         \E k \in 1..pos :
           /\ MatchLink(RStrip(lines[k])).m
           /\ elements[i].content = Strip(MatchLink(RStrip(lines[k])).g[1])
    /\ elements[i].type = "image" =>
         \E k \in 1..pos :
           /\ MatchImage(RStrip(lines[k])).m
           /\ elements[i].content = Strip(MatchImage(RStrip(lines[k])).g[1])

\* a document with a link whose URL is empty beside elements with text
C8_Witness ==
  /\ ppc = "done"
  /\ config = DefaultConfig
  /\ \E i \in 1..Len(elements) :
       elements[i].type = "link" /\ elements[i].content = <<>>
  /\ \E i \in 1..Len(elements) : elements[i].type = "paragraph"
  /\ \E k \in 1..Len(lines) : IsBlank(lines[k])

\* the positions of the configured rules whose pattern compiles and matches ln
MatchingRules(ln) ==
  {i \in 1..Len(config) :
     Compiles(config[i].pattern) /\ Match(config[i].pattern, ln).m}

\* C9: each non-blank line is classified by the first rule, in the configured
\* order, whose pattern matches it: the inner loop stops there, that rule alone
\* decides the element appended (or the IndexError, when its branch reads a group
\* its pattern lacks) and whether the parent changes, later matching rules have
\* no effect, and a line no rule matches becomes a paragraph.
C9_FirstMatchWins ==
  [][(ppc = "parse" /\ pos' = pos + 1 /\ ~IsBlank(lines[pos + 1])) =>
       LET ln == RStrip(lines[pos + 1])
       IN IF MatchingRules(ln) = {}
          THEN /\ ~matched'
               /\ elements' = Append(elements, Element("paragraph", Strip(ln), current_parent))
               /\ current_parent' = current_parent
          ELSE LET rule == config[Least(MatchingRules(ln))]
               IN /\ rule_idx' \in 1..Len(compiled_patterns)
                  /\ compiled_patterns[rule_idx'] = rule
                  /\ \A j \in 1..(rule_idx' - 1) :
                       ~Match(compiled_patterns[j].pattern, ln).m
                  /\ IF GroupRaises(rule.element, Match(rule.pattern, ln))
                     THEN ppc' = "raised" /\ elements' = elements
                     ELSE /\ matched'
                          /\ ppc' = "parse"
                          /\ elements' = elements
                               \o Emit(rule.element, Match(rule.pattern, ln), ln, current_parent)
                          /\ Len(elements') <= Len(elements) + 1
                          /\ (rule.element # "header") => current_parent' = current_parent
     ]_vars

\* a line that two rules of the table match, classified by the earlier one
C9_Witness ==
  /\ ppc = "done"
  /\ matched
  /\ rule_idx \in 1..Len(compiled_patterns)
  /\ compiled_patterns[rule_idx].element = "paragraph"
  /\ \E j \in (rule_idx + 1)..Len(compiled_patterns) :
       /\ compiled_patterns[j].element = "header"
       /\ Match(compiled_patterns[j].pattern, line).m
  /\ Len(elements) = 1
  /\ elements[1].type = "paragraph"

(***************************************************************************)
(* The parsed HTML tree (bs4) and the library calls the converter makes.   *)
(* A node is a tag (name, attrs, kids) or a text node (name "#text", text).*)
(***************************************************************************)
NoAttrs == [href |-> None, src |-> None, alt |-> None]

Node(name, txt, attrs, kids) ==
  [name |-> name, text |-> txt, attrs |-> attrs, kids |-> kids]

TextNode(txt) == Node("#text", txt, NoAttrs, <<>>)

Tag(name, kids) == Node(name, <<>>, NoAttrs, kids)

Anchor(href, kids) == Node("a", <<>>, [NoAttrs EXCEPT !.href = href], kids)

Img(src, alt) == Node("img", <<>>, [NoAttrs EXCEPT !.src = src, !.alt = alt], <<>>)

\* isinstance(child, Tag)
IsTag(n) == n.name # "#text"

RECURSIVE SelectSeq2(_, _)
\* the members of seq whose name is in names, in order
SelectSeq2(seq, names) ==
  IF seq = <<>> THEN <<>>
  ELSE (IF Head(seq).name \in names THEN <<Head(seq)>> ELSE <<>>)
         \o SelectSeq2(Tail(seq), names)

\* element.find_all(names, recursive=False)
DirectChildren(n, names) == SelectSeq2(n.kids, names)

RECURSIVE TagChildrenOf(_)
\* [child for child in element.children if isinstance(child, Tag)]
TagChildrenOf(kids) ==
  IF kids = <<>> THEN <<>>
  ELSE (IF IsTag(Head(kids)) THEN <<Head(kids)>> ELSE <<>>) \o TagChildrenOf(Tail(kids))

RECURSIVE DescendantsOfKids(_, _)
\* element.find_all(names): the matching descendants, in document order
DescendantsOfKids(kids, names) ==
  IF kids = <<>> THEN <<>>
  ELSE (IF Head(kids).name \in names THEN <<Head(kids)>> ELSE <<>>)
         \o DescendantsOfKids(Head(kids).kids, names)
         \o DescendantsOfKids(Tail(kids), names)

Descendants(n, names) == DescendantsOfKids(n.kids, names)

RECURSIVE StringsOfKids(_)
\* the text nodes below a tag, in document order
StringsOfKids(kids) ==
  IF kids = <<>> THEN <<>>
  ELSE (IF IsTag(Head(kids)) THEN StringsOfKids(Head(kids).kids)
        ELSE <<Head(kids).text>>)
         \o StringsOfKids(Tail(kids))

RECURSIVE StrippedNonEmpty(_)
\* _all_strings(strip=True): every string stripped, the empty ones left out
StrippedNonEmpty(strs) ==
  IF strs = <<>> THEN <<>>
  ELSE (IF Strip(Head(strs)) = <<>> THEN <<>> ELSE <<Strip(Head(strs))>>)
         \o StrippedNonEmpty(Tail(strs))

\* element.get_text(strip=True): the stripped strings joined by ""
GetText(n) == JoinWith(<<>>, StrippedNonEmpty(StringsOfKids(n.kids)))

\* only the script and style tags that are children of the document itself
WithoutScriptsShallow(kids) ==
  SelectSeq(kids, LAMBDA k : k.name \notin {"script", "style"})

RECURSIVE WithoutScripts(_)
\* script_or_style.decompose() for every script and style tag
WithoutScripts(kids) ==
  IF kids = <<>> THEN <<>>
  ELSE (IF Head(kids).name \in {"script", "style"} THEN <<>>
        ELSE <<[Head(kids) EXCEPT !.kids = WithoutScripts(Head(kids).kids)]>>)
         \o WithoutScripts(Tail(kids))

\* soup.body: the first body tag of the document, None when there is none
BodyOf(doc) ==
  IF Descendants(doc, {"body"}) = <<>> THEN None
  ELSE Some(Descendants(doc, {"body"})[1])

\* element.get(name, ""): the attribute, "" when it is absent
AttrOrEmpty(opt) == IF opt = None THEN <<>> ELSE opt[1]

\* the index of the first occurrence of sub in s at or after i, 0 when none
FindFrom(s, sub, i) ==
  LET P == {k \in i..(Len(s) - Len(sub) + 1) : SubSeq(s, k, k + Len(sub) - 1) = sub}
  IN IF P = {} THEN 0 ELSE Least(P)

\* scheme://host of an absolute URL
OriginOf(url) ==
  LET a == FindFrom(url, <<":", "/", "/">>, 1)
      p == FindFrom(url, <<"/">>, a + 3)
  IN IF p = 0 THEN url ELSE SubSeq(url, 1, p - 1)

\* an absolute URL up to and including the last "/" of its path
DirectoryOf(url) ==
  LET a == FindFrom(url, <<":", "/", "/">>, 1)
      S == {k \in (a + 3)..Len(url) : url[k] = "/"}
  IN IF S = {} THEN url \o <<"/">> ELSE SubSeq(url, 1, Greatest(S))

\* requests.compat.urljoin(base, ref) for an absolute http(s) base without
\* query or fragment and a reference that is empty, absolute, root-relative
\* ("/x") or a plain relative path without dot segments ("x", "d/x")
UrlJoin(base, ref) ==
  IF ref = <<>> THEN base
  ELSE IF FindFrom(ref, <<":", "/", "/">>, 1) # 0 THEN ref
  ELSE IF ref[1] = "/" THEN OriginOf(base) \o ref
  ELSE DirectoryOf(base) \o ref

RECURSIVE Repeat(_, _)
\* s * n
Repeat(s, n) == IF n <= 0 THEN <<>> ELSE s \o Repeat(s, n - 1)

HeadingNames == <<"h1", "h2", "h3", "h4", "h5", "h6">>

IsHeading(name) == \E k \in 1..6 : HeadingNames[k] = name

\* int(element.name[1])
HeadingLevel(name) == CHOOSE k \in 1..6 : HeadingNames[k] = name

(***************************************************************************)
(* WebScraper._parse_table                                                 *)
(***************************************************************************)
RECURSIVE TextsOf(_)
TextsOf(nodes) ==
  IF nodes = <<>> THEN <<>> ELSE <<GetText(Head(nodes))>> \o TextsOf(Tail(nodes))

RECURSIVE RowsOf(_)
\* lines 199-206: per tr, the texts of its th cells, then of its td cells
RowsOf(trs) ==
  IF trs = <<>> THEN <<>>
  ELSE <<TextsOf(Descendants(Head(trs), {"th"}))
           \o TextsOf(Descendants(Head(trs), {"td"}))>>
         \o RowsOf(Tail(trs))

RECURSIVE MaxLen(_)
\* max(len(row) for row in rows)
MaxLen(rows) ==
  IF Len(rows) = 1 THEN Len(rows[1]) ELSE Max(Len(rows[1]), MaxLen(Tail(rows)))

\* "| " + " | ".join(cells) + " |"
PipeLine(cells) == <<"|", " ">> \o JoinWith(<<" ", "|", " ">>, cells) \o <<" ", "|">>

PaddedNot(row, n) == row

\* row += [""] * (num_columns - len(row))
Padded(row, n) == row \o [k \in 1..(n - Len(row)) |-> <<>>]

\* lines 208-230: header line, separator line, padded data lines
RenderTable(rows) ==
  IF rows = <<>> THEN <<>>
  ELSE LET n == MaxLen(rows)
       IN JoinWith(<<"\n">>,
            <<PipeLine(rows[1]), PipeLine([k \in 1..n |-> <<"-", "-", "-">>])>>
              \o [k \in 1..(Len(rows) - 1) |-> PipeLine(Padded(rows[k + 1], n))])

ParseTable(table) == RenderTable(RowsOf(Descendants(table, {"tr"})))

(***************************************************************************)
(* WebScraper._parse_content and the recursion of _html_to_markdown, run   *)
(* as a stack of pending calls: a call appends its own lines, then its     *)
(* recursive calls run in order before the caller's next sibling.          *)
(***************************************************************************)
\* the inline nodes the enumerated paragraphs and containers are built from
InlineNodes ==
  { TextNode(<<"H", "i", " ">>),
    TextNode(<<"t", "h", "e", "r", "e">>),
    TextNode(<<" ">>),
    Anchor(Some(<<"/", "x">>), <<TextNode(<<"t", "h", "e", "r", "e">>)>>),
    Anchor(None, <<TextNode(<<"t", "h", "e", "r", "e">>)>>),
    Img(Some(<<"a", ".", "p", "n", "g">>), Some(<<"p", "i", "c">>)),
    Tag("strong", <<TextNode(<<"t", "h", "e", "r", "e">>)>>) }

\* a paragraph or a div around at most MaxKids inline nodes
EnumeratedBlocks ==
  {Tag(name, kids) : name \in {"p", "div"}, kids \in SeqsUpTo(InlineNodes, MaxKids)}

SampleHeading == Tag("h2", <<TextNode(<<"H", "i", " ">>), Tag("em", <<TextNode(<<"t", "h", "e", "r", "e">>)>>)>>)

SampleList ==
  Tag("ul",
      << Tag("li", << TextNode(<<"o", "n", "e">>),
                      Tag("ol", <<Tag("li", <<TextNode(<<"t", "w", "o">>)>>)>>) >>),
         Tag("li", <<TextNode(<<"x">>)>>) >>)

SampleTable ==
  Tag("table",
      << Tag("tr", << Tag("th", <<TextNode(<<"h">>)>>) >>),
         Tag("tr", << Tag("td", <<TextNode(<<"c">>)>>),
                      Tag("td", <<TextNode(<<"d">>)>>) >>) >>)

SampleBlocks ==
  { SampleHeading, SampleList, SampleTable,
    Tag("script", <<TextNode(<<"v", "a", "r">>)>>),
    Tag("i", <<TextNode(<<"t", "h", "e", "r", "e">>)>>),
    Img(None, None),
    Tag("p", <<TextNode(<<"H", "i", " ">>), Anchor(Some(<<"/", "x">>), <<TextNode(<<"t", "h", "e", "r", "e">>)>>)>>),
    Anchor(Some(<<"y">>), <<TextNode(<<"t", "h", "e", "r", "e">>)>>) }

\* an ordered list whose items hold lists nested three deep
DeepList ==
  Tag("ol",
      << Tag("li", << TextNode(<<"a">>),
                      Tag("ul", << Tag("li", << TextNode(<<"b">>),
                                                 Tag("ol", <<Tag("li", <<TextNode(<<"c">>)>>)>>) >>),
                                   Tag("li", <<TextNode(<<"e">>)>>) >>) >>),
         Tag("li", <<TextNode(<<"d">>)>>) >>)

\* a list with children that are not items, and an item below one of them
MixedList ==
  Tag("ul", << Img(Some(<<"a", ".", "p", "n", "g">>), None),
               Tag("li", <<TextNode(<<"x">>)>>),
               Tag("div", <<Tag("li", <<TextNode(<<"y">>)>>)>>) >>)

\* lists reached at indent_level 0, directly or through a container
ListHosts == { DeepList, MixedList, Tag("div", <<DeepList>>) }

\* blocks of the kinds that emit flattened text, with an image, an anchor or a
\* table inside them
FlatHosts ==
  { Tag("ul", <<Tag("li", << TextNode(<<"o", "n", "e">>), Img(Some(<<"a", ".", "p", "n", "g">>), Some(<<"p", "i", "c">>)),
                             Anchor(Some(<<"/", "x">>), <<TextNode(<<"t", "h", "e", "r", "e">>)>>),
                             Tag("table", <<Tag("tr", <<Tag("td", <<TextNode(<<"c">>)>>)>>)>>) >>)>>),
    Tag("h1", <<TextNode(<<"H", "i", " ">>), Anchor(Some(<<"/", "x">>), <<TextNode(<<"t", "h", "e", "r", "e">>)>>)>>),
    Tag("p", <<Tag("table", <<Tag("tr", <<Tag("td", <<TextNode(<<"c">>)>>)>>)>>)>>),
    Tag("b", <<Img(Some(<<"a", ".", "p", "n", "g">>), Some(<<"p", "i", "c">>))>>),
    Tag("em", <<TextNode(<<"H", "i", " ">>), Anchor(None, <<TextNode(<<"t", "h", "e", "r", "e">>)>>)>>),
    Anchor(Some(<<"y">>), <<Img(Some(<<"a", ".", "p", "n", "g">>), Some(<<"p", "i", "c">>)), TextNode(<<"t", "h", "e", "r", "e">>)>>) }

ScriptNode == Tag("script", <<TextNode(<<"v", "a", "r">>)>>)

StyleNode == Tag("style", <<TextNode(<<" ", "v", "a", "r", " ">>)>>)

\* blocks with a script or style subtree under a heading, a paragraph, a list
\* item, a table cell and nested containers
ScriptHosts ==
  { Tag("h1", <<TextNode(<<"H", "i", " ">>), ScriptNode>>),
    Tag("p", <<TextNode(<<"H", "i", " ">>), Tag("b", <<StyleNode, TextNode(<<"t", "h", "e", "r", "e">>)>>)>>),
    Tag("p", <<ScriptNode>>),
    Tag("ul", <<Tag("li", <<TextNode(<<"o", "n", "e">>), StyleNode>>)>>),
    Tag("table", <<Tag("tr", <<Tag("td", <<ScriptNode, TextNode(<<"c">>)>>)>>)>>),
    Tag("div", <<Tag("div", <<StyleNode, Tag("em", <<ScriptNode, TextNode(<<"x">>)>>)>>)>>) }

\* the cells the enumerated tables are built from: a plain cell and a cell
\* whose text holds a line break, as in <td>a\nb</td>
EnumeratedCells ==
  { Tag("td", <<TextNode(<<"c">>)>>), Tag("td", <<TextNode(<<"a", "\n", "b">>)>>) }

EnumeratedRows == {Tag("tr", cells) : cells \in SeqsUpTo(EnumeratedCells, MaxCells)}

\* tables of at most MaxRows rows of at most MaxCells cells, the table
\* without rows and rows without cells included
EnumeratedTables == {Tag("table", trs) : trs \in SeqsUpTo(EnumeratedRows, MaxRows)}

\* a table whose second row holds a cell with a pipe character and an empty cell
PipeTable ==
  Tag("table",
      << Tag("tr", << Tag("th", <<TextNode(<<"h">>)>>), Tag("th", <<TextNode(<<"k">>)>>) >>),
         Tag("tr", << Tag("td", <<TextNode(<<"|">>)>>), Tag("td", <<>>) >>) >>)

\* the document BeautifulSoup builds for a page with a body
Doc(blocks) == Tag("[document]", <<Tag("body", blocks)>>)

\* the document BeautifulSoup(html, "html.parser") builds for a fragment: it adds no body
Fragment(blocks) == Tag("[document]", blocks)

HtmlDocuments ==
  {Doc(<<b>>) : b \in EnumeratedBlocks}
    \cup {Doc(<<b, c>>) : b, c \in SampleBlocks}
    \cup {Fragment(<<b>>) : b \in SampleBlocks}
    \cup {Doc(<<b>>) : b \in ScriptHosts \cup ListHosts \cup FlatHosts}

\* the pages that consist of one table
TableDocuments == {Doc(<<t>>) : t \in EnumeratedTables \cup {PipeTable}}

BaseUrls == { <<"h", "t", "t", "p", "s", ":", "/", "/", "e", ".", "c", "o", "m", "/">>, <<"h", "t", "t", "p", "s", ":", "/", "/", "e", ".", "c", "o", "m", "/", "d", "/", "p">> }

Frame(n, indent) == [node |-> n, indent_level |-> indent]

RECURSIVE Frames(_, _)
Frames(nodes, indent) ==
  IF nodes = <<>> THEN <<>>
  ELSE <<Frame(Head(nodes), indent)>> \o Frames(Tail(nodes), indent)

\* the tag names a branch of _html_to_markdown names
BranchNames ==
  {"h1", "h2", "h3", "h4", "h5", "h6", "p", "ul", "ol", "li", "strong", "b",
   "em", "i", "a", "img", "table"}

\* the lines one call appends itself (lines 106-176)
OwnLines(n, indent, base) ==
  CASE IsHeading(n.name) ->
         <<Repeat(<<"#">>, HeadingLevel(n.name)) \o <<" ">> \o GetText(n)>>
    [] n.name = "p" -> IF GetText(n) = <<>> THEN <<>> ELSE <<GetText(n)>>
    [] n.name = "li" ->
         <<Repeat(<<" ", " ">>, indent - 1) \o <<"-", " ">> \o GetText(n)>>
    [] n.name \in {"strong", "b"} -> <<<<"*", "*">> \o GetText(n) \o <<"*", "*">>>>
    [] n.name \in {"em", "i"} -> <<<<"*">> \o GetText(n) \o <<"*">>>>
    [] n.name = "a" ->
         <<<<"[">> \o GetText(n) \o <<"]", "(">>
             \o UrlJoin(base, AttrOrEmpty(n.attrs.href)) \o <<")">>>>
    [] n.name = "img" ->
         <<<<"!", "[">> \o AttrOrEmpty(n.attrs.alt) \o <<"]", "(">>
             \o UrlJoin(base, AttrOrEmpty(n.attrs.src)) \o <<")">>>>
    [] n.name = "table" -> <<ParseTable(n)>>
    [] OTHER -> <<>>

OwnImagesWithSrcOnly(n, base) ==
  IF n.name = "img" /\ n.attrs.src # None
  THEN <<UrlJoin(base, AttrOrEmpty(n.attrs.src))>> ELSE <<>>

\* metadata["images"].append(full_src)
OwnImages(n, base) ==
  IF n.name = "img" THEN <<UrlJoin(base, AttrOrEmpty(n.attrs.src))>> ELSE <<>>

\* metadata["tables"].append(markdown_table)
OwnTables(n) == IF n.name = "table" THEN <<ParseTable(n)>> ELSE <<>>

RecursiveCallsSameIndent(n, indent) ==
  CASE n.name \in {"ul", "ol"} -> Frames(DirectChildren(n, {"li"}), indent + 1)
    [] n.name = "li" -> Frames(DirectChildren(n, {"ul", "ol"}), indent)
    [] n.name \in BranchNames -> <<>>
    [] OTHER -> Frames(TagChildrenOf(n.kids), indent)

RecursiveCallsIntoItems(n, indent) ==
  CASE n.name \in {"ul", "ol"} -> Frames(DirectChildren(n, {"li"}), indent + 1)
    [] n.name = "li" -> Frames(TagChildrenOf(n.kids), indent + 1)
    [] n.name \in BranchNames -> <<>>
    [] OTHER -> Frames(TagChildrenOf(n.kids), indent)

RecursiveCallsIntoParagraphs(n, indent) ==
  CASE n.name \in {"ul", "ol"} -> Frames(DirectChildren(n, {"li"}), indent + 1)
    [] n.name = "li" -> Frames(DirectChildren(n, {"ul", "ol"}), indent + 1)
    [] n.name \in BranchNames \ {"p"} -> <<>>
    [] OTHER -> Frames(TagChildrenOf(n.kids), indent)

\* the recursive calls one call makes, in order
RecursiveCalls(n, indent) ==
  CASE n.name \in {"ul", "ol"} -> Frames(DirectChildren(n, {"li"}), indent + 1)
    [] n.name = "li" -> Frames(DirectChildren(n, {"ul", "ol"}), indent + 1)
    [] n.name \in BranchNames -> <<>>
    [] OTHER -> Frames(TagChildrenOf(n.kids), indent)

InitConv ==
  /\ \/ html \in HtmlDocuments /\ base_url \in BaseUrls
     \/ html \in TableDocuments /\ base_url = <<"h", "t", "t", "p", "s", ":", "/", "/", "e", ".", "c", "o", "m", "/">>
  /\ soup = html
  /\ stack = <<>>
  /\ markdown_lines = <<>>
  /\ metadata = <<>>
  /\ markdown_content = <<>>
  /\ vpc = "call"
  /\ ScrapeIdle
  /\ ChunkIdle
  /\ ParseIdle

\* lines 78-79
Decomposed(doc) == [doc EXCEPT !.kids = WithoutScripts(doc.kids)]

\* _parse_content, lines 75-84: soup.body is a tag
ParseContentEnter ==
  /\ vpc = "call"
  /\ BodyOf(Decomposed(soup)) # None
  /\ soup' = Decomposed(soup)
  /\ metadata' = [images |-> <<>>, tables |-> <<>>, urls |-> base_url]
  /\ markdown_lines' = <<>>
  /\ stack' = <<Frame(BodyOf(Decomposed(soup))[1], 0)>>
  /\ vpc' = "walk"
  /\ UNCHANGED <<html, base_url, markdown_content>>
  /\ UNCHANGED <<scrapeVars, chunkVars, parseVars>>

\* _parse_content, lines 75-84: soup.body is None and element.name (line 106)
\* raises AttributeError
ParseContentNoBody ==
  /\ vpc = "call"
  /\ BodyOf(Decomposed(soup)) = None
  /\ soup' = Decomposed(soup)
  /\ metadata' = [images |-> <<>>, tables |-> <<>>, urls |-> base_url]
  /\ markdown_lines' = <<>>
  /\ vpc' = "raised"
  /\ UNCHANGED <<html, base_url, stack, markdown_content>>
  /\ UNCHANGED <<scrapeVars, chunkVars, parseVars>>

\* one call of _html_to_markdown (lines 106-187), up to its recursive calls
HtmlToMarkdown ==
  /\ vpc = "walk"
  /\ stack # <<>>
  /\ LET n == Head(stack).node
         indent == Head(stack).indent_level
     IN /\ markdown_lines' = markdown_lines \o OwnLines(n, indent, base_url)
        /\ metadata' = [metadata EXCEPT
                          !.images = @ \o OwnImages(n, base_url),
                          !.tables = @ \o OwnTables(n)]
        /\ stack' = RecursiveCalls(n, indent) \o Tail(stack)
  /\ UNCHANGED <<html, soup, base_url, markdown_content, vpc>>
  /\ UNCHANGED <<scrapeVars, chunkVars, parseVars>>

\* _parse_content, lines 85-86
ParseContentReturn ==
  /\ vpc = "walk"
  /\ stack = <<>>
  /\ markdown_content' = JoinWith(<<"\n">>, markdown_lines)
  /\ vpc' = "done"
  /\ UNCHANGED <<html, soup, base_url, stack, markdown_lines, metadata>>
  /\ UNCHANGED <<scrapeVars, chunkVars, parseVars>>

NextConv ==
  \/ ParseContentEnter
  \/ ParseContentNoBody
  \/ HtmlToMarkdown
  \/ ParseContentReturn

SpecConv == InitConv /\ [][NextConv]_vars

(***************************************************************************)
(* Claims about WebScraper._html_to_markdown.                              *)
(***************************************************************************)
\* the only block of the body, when the body has exactly one
OnlyBlock == BodyOf(soup)[1].kids[1]

\* the body is one paragraph that holds text of its own and an anchor
ParagraphWithTextAndAnchor ==
  /\ BodyOf(soup) # None
  /\ Len(BodyOf(soup)[1].kids) = 1
  /\ OnlyBlock.name = "p"
  /\ \E k \in 1..Len(OnlyBlock.kids) :
       ~IsTag(OnlyBlock.kids[k]) /\ Strip(OnlyBlock.kids[k].text) # <<>>
  /\ \E k \in 1..Len(OnlyBlock.kids) : OnlyBlock.kids[k].name = "a"

\* <p>Hi <a href="/x">there</a></p> in a body, with base https://e.com/
IsScenarioPage ==
  /\ soup = Doc(<<Tag("p", <<TextNode(<<"H", "i", " ">>),
                              Anchor(Some(<<"/", "x">>), <<TextNode(<<"t", "h", "e", "r", "e">>)>>)>>)>>)
  /\ base_url = <<"h", "t", "t", "p", "s", ":", "/", "/", "e", ".", "c", "o", "m", "/">>

\* the trimmed text nodes that are children of the paragraph itself
OwnTextOf(p) ==
  JoinWith(<<>>, StrippedNonEmpty(
    [k \in 1..Len(SelectSeq2(p.kids, {"#text"})) |-> SelectSeq2(p.kids, {"#text"})[k].text]))

\* one link line per anchor child of the paragraph
AnchorLinesOf(p) ==
  [k \in 1..Len(DirectChildren(p, {"a"})) |->
     <<"[">> \o GetText(DirectChildren(p, {"a"})[k]) \o <<"]", "(">>
       \o UrlJoin(base_url, AttrOrEmpty(DirectChildren(p, {"a"})[k].attrs.href))
       \o <<")">>]

\* C10 (as claimed): a paragraph with its own text and an anchor is converted to
\* the line of the paragraph's own text only ("Hi") followed by one link line
\* per anchor inside it ("[there](https://e.com/x)").
C10_ParagraphLineThenAnchorLines ==
  (vpc = "done" /\ ParagraphWithTextAndAnchor) =>
    markdown_lines = <<OwnTextOf(OnlyBlock)>> \o AnchorLinesOf(OnlyBlock)

\* C10 (amended): a paragraph with its own text and an anchor is converted to
\* exactly one line, the flattened text of its whole subtree: every text piece
\* trimmed and joined without separator, the anchor's text included ("Hithere");
\* the anchor inside the paragraph is not visited and yields no line of its own.
C10_ParagraphIsOneFlattenedLine ==
  (vpc = "done" /\ ParagraphWithTextAndAnchor) =>
    /\ Len(markdown_lines) = 1
    /\ markdown_lines[1] =
         JoinWith(<<>>, StrippedNonEmpty(StringsOfKids(OnlyBlock.kids)))
    /\ markdown_lines[1][1] # "["
    /\ markdown_content = markdown_lines[1]
    /\ IsScenarioPage => markdown_lines = << <<"H", "i", "t", "h", "e", "r", "e">> >>

C10_Witness ==
  /\ vpc = "done"
  /\ IsScenarioPage
  /\ ParagraphWithTextAndAnchor
  /\ markdown_content = <<"H", "i", "t", "h", "e", "r", "e">>

(***************************************************************************)
(* Claims about the accumulators and failures of _parse_content.           *)
(***************************************************************************)
\* sub occurs in s
Contains(s, sub) == FindFrom(s, sub, 1) # 0

\* the line has the shape the img branch writes: ![alt](url)
IsImageLine(ln) ==
  /\ Len(ln) >= 5
  /\ ln[1] = "!" /\ ln[2] = "[" /\ ln[Len(ln)] = ")"
  /\ Contains(ln, <<"]", "(">>)

\* the url between "](" and the closing ")" of an image line
ImageLineUrl(ln) == SubSeq(ln, FindFrom(ln, <<"]", "(">>, 1) + 2, Len(ln) - 1)

\* the line has the shape of a rendered table: empty (a table without rows) or
\* starting with a pipe; no other branch writes such a line for the texts of
\* the enumerated documents
IsTableBlock(ln) == ln = <<>> \/ ln[1] = "|"

RECURSIVE ImageUrlsOf(_)
ImageUrlsOf(ls) ==
  IF ls = <<>> THEN <<>>
  ELSE (IF IsImageLine(Head(ls)) THEN <<ImageLineUrl(Head(ls))>> ELSE <<>>)
         \o ImageUrlsOf(Tail(ls))

RECURSIVE TableBlocksOf(_)
TableBlocksOf(ls) ==
  IF ls = <<>> THEN <<>>
  ELSE (IF IsTableBlock(Head(ls)) THEN <<Head(ls)>> ELSE <<>>)
         \o TableBlocksOf(Tail(ls))

\* C11: at every step of a traversal and at its end, metadata.images is the
\* sequence of the resolved URLs of the image lines appended to markdown_lines
\* so far, and metadata.tables the sequence of the table blocks appended so
\* far, both in the same order and with duplicates kept.
C11_MetadataMirrorsLines ==
  vpc \in {"walk", "done"} =>
    /\ metadata.images = ImageUrlsOf(markdown_lines)
    /\ metadata.tables = TableBlocksOf(markdown_lines)
    /\ metadata.urls = base_url

\* a traversal that recorded a table and then an image
C11_Witness ==
  /\ vpc = "done"
  /\ Len(metadata.tables) = 1
  /\ Len(metadata.images) = 1
  /\ IsTableBlock(markdown_lines[1])
  /\ IsImageLine(markdown_lines[2])

\* C12: conversion returns its (markdown, metadata) result for every HTML
\* input and base URL, a document without body element included: no call of
\* _parse_content ends in an error.
C12_ConversionNeverRaises == vpc # "raised"

\* the stripped, non-empty texts below the script and style tags of a tree
ScriptTexts(doc) ==
  LET strs == StrippedNonEmpty(StringsOfKids(Descendants(doc, {"script", "style"})))
  IN {strs[k] : k \in 1..Len(strs)}

\* C13: no text of a script or style subtree of the input, at any depth and
\* under any kind of ancestor, occurs in an emitted line, in the joined
\* Markdown text or in the metadata.
C13_NoScriptTextInOutput ==
  vpc \in {"walk", "done"} =>
    \A t \in ScriptTexts(html) :
      /\ \A k \in 1..Len(markdown_lines) : ~Contains(markdown_lines[k], t)
      /\ \A k \in 1..Len(metadata.images) : ~Contains(metadata.images[k], t)
      /\ \A k \in 1..Len(metadata.tables) : ~Contains(metadata.tables[k], t)
      /\ ~Contains(markdown_content, t)

\* a page with a script inside a table cell was converted and its table recorded
C13_Witness ==
  /\ vpc = "done"
  /\ ScriptTexts(html) # {}
  /\ Descendants(html, {"td"}) # <<>>
  /\ Descendants(Descendants(html, {"td"})[1], {"script"}) # <<>>
  /\ Len(metadata.tables) = 1
  /\ metadata.tables[1] = <<"|", " ", "c", " ", "|", "\n", "|", " ", "-", "-", "-", " ", "|">>

(***************************************************************************)
(* Claims about WebScraper._parse_table (render_table).                    *)
(***************************************************************************)
\* the page is one table
IsTablePage ==
  /\ BodyOf(html) # None
  /\ Len(BodyOf(html)[1].kids) = 1
  /\ BodyOf(html)[1].kids[1].name = "table"

\* rows: the cell texts gathered per tr of the table of a table page
TableRows == RowsOf(Descendants(BodyOf(html)[1].kids[1], {"tr"}))

\* the lines of the rendered table of a table page
TableLines == SplitLines(markdown_lines[1])

\* the number of pipe-delimited cells of a rendered line
CellCount(ln) == Cardinality({k \in 1..Len(ln) : ln[k] = "|"}) - 1

\* no cell text of the table holds a pipe character or a line break
CellsArePlain ==
  \A r \in 1..Len(TableRows) : \A c \in 1..Len(TableRows[r]) :
    ~Contains(TableRows[r][c], <<"|">>) /\ ~Contains(TableRows[r][c], <<"\n">>)

C15_LinesAreRowsPlusOne ==
  (vpc = "done" /\ IsTablePage) =>
    IF TableRows = <<>> THEN markdown_lines[1] = <<>>
    ELSE /\ Len(TableLines) = Len(TableRows) + 1
         /\ TableLines[1] = PipeLine(TableRows[1])
         /\ TableLines[2] = PipeLine([k \in 1..MaxLen(TableRows) |-> <<"-", "-", "-">>])
         /\ \A k \in 2..Len(TableRows) :
              TableLines[k + 1] = PipeLine(Padded(TableRows[k], MaxLen(TableRows)))

(***************************************************************************)
(* MarkdownParser: the analytics operations over self.elements.            *)
(***************************************************************************)
\* summary.get(elem_type, 0)
SummaryGet(summary, elem_type, default) ==
  IF elem_type \in DOMAIN summary THEN summary[elem_type] ELSE default

RECURSIVE SummarizeFrom(_, _)
\* the loop of summarize_structure: summary[elem_type] = summary.get(elem_type, 0) + 1
SummarizeFrom(elems, summary) ==
  IF elems = <<>> THEN summary
  ELSE SummarizeFrom(Tail(elems),
         [t \in DOMAIN summary \cup {Head(elems).type} |->
            IF t = Head(elems).type
            THEN SummaryGet(summary, t, 0) + 1
            ELSE summary[t]])

\* summarize_structure(): a dictionary keyed by the element types that occur
SummarizeStructure(elems) == SummarizeFrom(elems, [t \in {} |-> 0])

RECURSIVE ContentsOfTypes(_, _)
\* [elem["content"] for elem in self.elements if elem["type"] in types]
ContentsOfTypes(elems, types) ==
  IF elems = <<>> THEN <<>>
  ELSE (IF Head(elems).type \in types THEN <<Head(elems).content>> ELSE <<>>)
         \o ContentsOfTypes(Tail(elems), types)

ExtractLinksAndImages(elems) == ContentsOfTypes(elems, {"link", "image"})

\* extract_links()
ExtractLinks(elems) == ContentsOfTypes(elems, {"link"})

\* extract_images()
ExtractImages(elems) == ContentsOfTypes(elems, {"image"})

UpperCase == <<"A", "B", "C", "D", "E", "F", "G", "H", "I", "J", "K", "L", "M",
               "N", "O", "P", "Q", "R", "S", "T", "U", "V", "W", "X", "Y", "Z">>

LowerCase == <<"a", "b", "c", "d", "e", "f", "g", "h", "i", "j", "k", "l", "m",
               "n", "o", "p", "q", "r", "s", "t", "u", "v", "w", "x", "y", "z">>

\* str.lower() of one character
Lower(c) ==
  IF \E k \in 1..Len(UpperCase) : UpperCase[k] = c
  THEN LowerCase[CHOOSE k \in 1..Len(UpperCase) : UpperCase[k] = c]
  ELSE c

\* the characters regex \w accepts
IsWordChar(c) ==
  \/ \E k \in 1..Len(UpperCase) : UpperCase[k] = c \/ LowerCase[k] = c
  \/ c \in Digits
  \/ c = "_"

RECURSIVE CollapseSpaces(_)
\* re.sub(r"\s+", "-", slug)
CollapseSpaces(s) ==
  IF s = <<>> THEN <<>>
  ELSE IF IsSpace(s[1])
       THEN <<"-">> \o CollapseSpaces(SubSeq(s, CountRun(s, 1, Whitespace) + 1, Len(s)))
       ELSE <<s[1]>> \o CollapseSpaces(Tail(s))

\* _slugify(text): drop what is not \w, \s or "-", lowercase, hyphenate the
\* whitespace runs
Slugify(txt) ==
  LET kept == SelectSeq(txt, LAMBDA c : IsWordChar(c) \/ IsSpace(c) \/ c = "-")
  IN CollapseSpaces([k \in 1..Len(kept) |-> Lower(kept[k])])

\* elem["type"].startswith("header_level_")
IsHeaderType(t) == \E k \in 1..Len(HeaderTypes) : HeaderTypes[k] = t

\* int(header["type"].split("_")[-1])
LevelOf(t) == CHOOSE k \in 1..Len(HeaderTypes) : HeaderTypes[k] = t

TocIndentByLevel(level) == Repeat(<<" ", " ">>, level)

\* indent = "  " * (level - 1)
TocIndent(level) == Repeat(<<" ", " ">>, level - 1)

\* f"{indent}- [{title}](#{self._slugify(title)})"
TocLine(header) ==
  TocIndent(LevelOf(header.type)) \o <<"-", " ", "[">> \o header.content
    \o <<"]", "(", "#">> \o Slugify(header.content) \o <<")">>

\* the first entry of toc_lines: "## Table of Contents\n"
TocTitle ==
  <<"#", "#", " ", "T", "a", "b", "l", "e", " ", "o", "f", " ",
    "C", "o", "n", "t", "e", "n", "t", "s", "\n">>

\* generate_toc()
GenerateToc(elems) ==
  LET headers == SelectSeq(elems, LAMBDA e : IsHeaderType(e.type))
  IN JoinWith(<<"\n">>, <<TocTitle>> \o [k \in 1..Len(headers) |-> TocLine(headers[k])])

PlainKinds == {"paragraph", "ordered_list", "unordered_list", "blockquote", "code"}

RECURSIVE AssociationsFrom(_, _)
\* the loop of extract_plain_text_with_associations, with its own current_parent
AssociationsFrom(elems, cur) ==
  IF elems = <<>> THEN <<>>
  ELSE LET e == Head(elems)
       IN IF IsHeaderType(e.type)
          THEN <<Element(e.type, e.content, None)>>
                 \o AssociationsFrom(Tail(elems), Some(e.content))
          ELSE IF e.type \in PlainKinds \cup {"link", "image"}
          THEN <<Element(e.type, e.content, cur)>> \o AssociationsFrom(Tail(elems), cur)
          ELSE AssociationsFrom(Tail(elems), cur)

\* extract_plain_text_with_associations()
ExtractPlainTextWithAssociations(elems) == AssociationsFrom(elems, None)

\* extract_plain_text(): the contents that are not of a link or an image,
\* joined by "\n"
ExtractPlainText(elems) ==
  LET kept == SelectSeq(ExtractPlainTextWithAssociations(elems),
                        LAMBDA e : e.type \notin {"link", "image"})
  IN JoinWith(<<"\n">>, [k \in 1..Len(kept) |-> kept[k].content])

\* the end of the leftmost-starting match of \[.*?\]\(url\) at position i of
\* s, 0 when there is none: "[", the fewest characters other than "\n", then
\* "](" url ")"
LinkMatchEnd(s, i, url) ==
  LET tail == <<"]", "(">> \o url \o <<")">>
      J == {j \in (i + 1)..(Len(s) - Len(tail) + 1) :
              /\ SubSeq(s, j, j + Len(tail) - 1) = tail
              /\ \A k \in (i + 1)..(j - 1) : s[k] # "\n"}
  IN IF CharAt(s, i) # "[" \/ J = {} THEN 0 ELSE Least(J) + Len(tail) - 1

RECURSIVE SubLink(_, _, _, _)
\* re.sub(r"\[.*?\]\(" + re.escape(url) + r"\)", replacement, s) from
\* position i on, for a replacement without backslash
SubLink(s, i, url, replacement) ==
  IF i > Len(s) THEN <<>>
  ELSE IF LinkMatchEnd(s, i, url) # 0
       THEN replacement \o SubLink(s, LinkMatchEnd(s, i, url) + 1, url, replacement)
       ELSE <<s[i]>> \o SubLink(s, i + 1, url, replacement)

RECURSIVE ReplaceLinksFrom(_, _, _)
\* the loop of replace_links over self.elements
ReplaceLinksFrom(elems, updated, replacement) ==
  IF elems = <<>> THEN updated
  ELSE ReplaceLinksFrom(Tail(elems),
         IF Head(elems).type = "link"
         THEN SubLink(updated, 1, Head(elems).content, replacement)
         ELSE updated,
         replacement)

\* replace_links(replacement)
ReplaceLinks(replacement) == ReplaceLinksFrom(elements, content, replacement)

\* source lines of the documents whose parser is asked for its analytics
StatLineSamples ==
  { <<"#", "#", " ", "A", " ", "b", "!">>, <<"#", " ", "T">>, <<"-", " ", "[", "a", "]", "(", "u", ")">>, <<"[", "a", "]", "(", "u", ")">>, <<"[", "b", "]", " ", "[", "a", "]", "(", "u", ")">>,
    <<"!", "[", "i", "]", "(", "u", ")">>, <<"t", "x", "t">>, <<>> }

\* the replacement strings replace_links is called with
Replacements == { <<"R">>, <<>> }

InitAnalytics ==
  /\ config = DefaultConfig
  /\ content \in Documents(StatLineSamples, MaxStatLines)
  /\ compiled_patterns = <<>>
  /\ lines = <<>>
  /\ pos = 0
  /\ line = <<>>
  /\ matched = FALSE
  /\ rule_idx = 0
  /\ current_parent = None
  /\ elements = <<>>
  /\ ppc = "compile"
  /\ stats = <<>>
  /\ updated_content = <<>>
  /\ source = <<>>
  /\ ChunkIdle
  /\ ConvIdle

\* get_statistics(), lines 354-363
GetStatistics ==
  /\ ppc = "done"
  /\ stats = <<>>
  /\ stats' = << [ summary |-> SummarizeStructure(elements),
                   total_links |-> Len(ExtractLinks(elements)),
                   total_images |-> Len(ExtractImages(elements)),
                   toc |-> GenerateToc(elements),
                   plain_text_length |-> Len(ExtractPlainText(elements)),
                   plain_text_with_associations |->
                     ExtractPlainTextWithAssociations(elements) ] >>
  /\ UNCHANGED <<content, config, compiled_patterns, lines, pos, line, matched,
                 rule_idx, current_parent, elements, ppc, updated_content, source>>
  /\ UNCHANGED <<chunkVars, convVars>>

\* replace_links(replacement), lines 275-286
ReplaceLinksCall ==
  /\ ppc = "done"
  /\ updated_content = <<>>
  /\ \E replacement \in Replacements :
       updated_content' = << [ replacement |-> replacement,
                               text |-> ReplaceLinks(replacement) ] >>
  /\ UNCHANGED <<content, config, compiled_patterns, lines, pos, line, matched,
                 rule_idx, current_parent, elements, ppc, stats, source>>
  /\ UNCHANGED <<chunkVars, convVars>>

\* MarkdownParser(parser.extract_plain_text()): a second parser, with the same
\* configuration, of the plain text of the first
ParsePlainText ==
  /\ ppc = "done"
  /\ source = <<>>
  /\ source' = <<content>>
  /\ content' = ExtractPlainText(elements)
  /\ compiled_patterns' = <<>>
  /\ lines' = <<>>
  /\ pos' = 0
  /\ line' = <<>>
  /\ matched' = FALSE
  /\ rule_idx' = 0
  /\ current_parent' = None
  /\ elements' = <<>>
  /\ ppc' = "compile"
  /\ stats' = <<>>
  /\ updated_content' = <<>>
  /\ UNCHANGED config
  /\ UNCHANGED <<chunkVars, convVars>>

NextAnalytics ==
  \/ CompilePatterns
  \/ ParseEnter
  \/ ParseLine
  \/ ParseReturn
  \/ GetStatistics
  \/ ReplaceLinksCall
  \/ ParsePlainText

SpecAnalytics == InitAnalytics /\ [][NextAnalytics]_vars

(***************************************************************************)
(* Claims about the analytics operations.                                  *)
(***************************************************************************)
\* the header elements of self.elements, in document order
HeaderElements == SelectSeq(elements, IsHeaderElement)

\* the lines of the table of contents returned by get_statistics
TocLines == SplitLines(stats[1].toc)

\* C16: generate_toc() holds exactly one entry per header element, in
\* document order, after its title: the entry of a header of level n with
\* text t is 2*(n-1) spaces, then "- [t](#slug(t))"; the number of entries is
\* the number of header elements.
C16_TocHasOneEntryPerHeader ==
  stats # <<>> =>
    /\ Len(TocLines) = 2 + Len(HeaderElements)
    /\ Len(HeaderElements) = Cardinality({k \in 1..Len(elements) : IsHeaderElement(elements[k])})
    /\ TocLines[1] = <<"#", "#", " ", "T", "a", "b", "l", "e", " ", "o", "f", " ", "C", "o", "n", "t", "e", "n", "t", "s">>
    /\ TocLines[2] = <<>>
    /\ \A k \in 1..Len(HeaderElements) :
         LET h == HeaderElements[k]
             n == CHOOSE l \in 1..6 : HeaderTypes[l] = h.type
             entry == TocLines[k + 2]
         IN /\ CountRun(entry, 1, {" "}) = 2 * (n - 1)
            /\ SubSeq(entry, 2 * (n - 1) + 1, Len(entry)) =
                 <<"-", " ", "[">> \o h.content \o <<"]", "(", "#">>
                   \o Slugify(h.content) \o <<")">>
            /\ h.content = <<"A", " ", "b", "!">> => entry = <<" ", " ", "-", " ", "[", "A", " ", "b", "!", "]", "(", "#", "a", "-", "b", ")">>

\* the table of contents of "# T" followed by "## A b!"
C16_Witness ==
  /\ stats # <<>>
  /\ Len(HeaderElements) = 2
  /\ TocLines = << <<"#", "#", " ", "T", "a", "b", "l", "e", " ", "o", "f", " ", "C", "o", "n", "t", "e", "n", "t", "s">>, <<>>, <<"-", " ", "[", "T", "]", "(", "#", "t", ")">>, <<" ", " ", "-", " ", "[", "A", " ", "b", "!", "]", "(", "#", "a", "-", "b", ")">> >>

\* C17 (as claimed): the number of entries of extract_links() is
\* summarize_structure()["link"] and the number of entries of extract_images()
\* is summarize_structure()["image"], also for a document without link or
\* without image.
C17_CountsAreSummaryEntries ==
  stats # <<>> =>
    /\ "link" \in DOMAIN stats[1].summary
    /\ stats[1].summary["link"] = stats[1].total_links
    /\ "image" \in DOMAIN stats[1].summary
    /\ stats[1].summary["image"] = stats[1].total_images

\* C17 (amended): the number of entries of extract_links() is the count
\* summarize_structure() holds under "link" when the document has a link
\* element, and 0 when it has none, in which case the summary has no "link"
\* entry at all (summarize_structure().get("link", 0)); likewise for
\* extract_images() and "image".
C17_CountsAreSummaryEntriesOrZero ==
  stats # <<>> =>
    /\ stats[1].total_links = SummaryGet(stats[1].summary, "link", 0)
    /\ stats[1].total_images = SummaryGet(stats[1].summary, "image", 0)
    /\ stats[1].total_links = Cardinality({k \in 1..Len(elements) : elements[k].type = "link"})
    /\ stats[1].total_images = Cardinality({k \in 1..Len(elements) : elements[k].type = "image"})
    /\ "link" \in DOMAIN stats[1].summary <=> stats[1].total_links > 0
    /\ "image" \in DOMAIN stats[1].summary <=> stats[1].total_images > 0

\* the statistics of a document with a link and a paragraph and no image
C17_Witness ==
  /\ stats # <<>>
  /\ stats[1].total_links = 1
  /\ stats[1].total_images = 0
  /\ DOMAIN stats[1].summary = {"link", "paragraph"}

\* C18: parsing a text, projecting it with extract_plain_text() and parsing
\* the projection again yields only paragraph and header elements: no link,
\* image or list-item element appears in the second parse.
C18_SecondParseIsParagraphsAndHeaders ==
  (source # <<>> /\ ppc \in {"parse", "done"}) =>
    \A k \in 1..Len(elements) :
      elements[k].type = "paragraph" \/ IsHeaderElement(elements[k])

\* the end of the Markdown link that starts at position i of s, 0 when none
\* starts there: "[", a text without brackets, "](", a url up to the first
\* ")", where the url is one of urls
LinkEnd(s, i, urls) ==
  LET close == FindFrom(s, <<"]">>, i + 1)
      open == FindFrom(s, <<"[">>, i + 1)
      paren == FindFrom(s, <<")">>, close + 2)
  IN IF /\ CharAt(s, i) = "["
        /\ close # 0
        /\ (open = 0 \/ open > close)
        /\ CharAt(s, close + 1) = "("
        /\ paren # 0
        /\ SubSeq(s, close + 2, paren - 1) \in urls
     THEN paren
     ELSE 0

RECURSIVE LinksReplaced(_, _, _, _)
\* s from position i on, with every Markdown link to one of urls replaced
LinksReplaced(s, i, urls, replacement) ==
  IF i > Len(s) THEN <<>>
  ELSE IF LinkEnd(s, i, urls) # 0
       THEN replacement \o LinksReplaced(s, LinkEnd(s, i, urls) + 1, urls, replacement)
       ELSE <<s[i]>> \o LinksReplaced(s, i + 1, urls, replacement)

\* the contents of the link elements
LinkUrls == {elements[k].content : k \in {j \in 1..Len(elements) : elements[j].type = "link"}}

\* C19: replace_links(replacement) returns the source text in which exactly
\* the occurrences of [text](url) whose url is the content of a link element
\* are replaced by replacement; the text outside them is unchanged.
C19_ExactlyTheLinksAreReplaced ==
  updated_content # <<>> =>
    updated_content[1].text =
      LinksReplaced(content, 1, LinkUrls, updated_content[1].replacement)

(***************************************************************************)
(* Claims about MarkdownParser._compile_patterns.                          *)
(***************************************************************************)
\* the positions of the configured rules whose pattern compiles
CompilingPositions == {k \in 1..Len(config) : Compiles(config[k].pattern)}

\* the i-th smallest member of a set of positions
NthOf(S, i) == CHOOSE k \in S : Cardinality({j \in S : j <= k}) = i

\* a rule the if/elif chain of _parse_markdown has a branch for, whose pattern
\* has the capture groups that branch reads
IsClassifying(rule) ==
  /\ rule.element \in {"header", "ordered_list", "unordered_list", "image",
                       "link", "paragraph"}
  /\ \A ln \in ConfigLineSamples :
       Match(rule.pattern, ln).m => ~GroupRaises(rule.element, Match(rule.pattern, ln))

\* the non-blank lines consumed so far, in order
NonBlankLines == SelectSeq(SubSeq(lines, 1, pos), LAMBDA ln : ~IsBlank(ln))

IsListPage ==
  /\ BodyOf(soup) # None
  /\ Len(BodyOf(soup)[1].kids) = 1
  /\ \/ BodyOf(soup)[1].kids[1].name \in {"ul", "ol"}
     \/ /\ BodyOf(soup)[1].kids[1].name = "div"
        /\ Len(BodyOf(soup)[1].kids[1].kids) = 1
        /\ BodyOf(soup)[1].kids[1].kids[1].name \in {"ul", "ol"}

\* the list of a list page
PageList ==
  IF BodyOf(soup)[1].kids[1].name = "div"
  THEN BodyOf(soup)[1].kids[1].kids[1]
  ELSE BodyOf(soup)[1].kids[1]

RECURSIVE ItemLines(_, _)
RECURSIVE NestedListLines(_, _)
\* the lines of the items among the children of a list nested d deep: each
\* item's line with 4*(d-1) leading spaces, followed by the lines of the lists
\* that are children of the item
ItemLines(kids, d) ==
  IF kids = <<>> THEN <<>>
  ELSE (IF Head(kids).name = "li"
        THEN <<Repeat(<<" ">>, 4 * (d - 1)) \o <<"-", " ">> \o GetText(Head(kids))>>
               \o NestedListLines(Head(kids).kids, d + 1)
        ELSE <<>>)
         \o ItemLines(Tail(kids), d)

\* the lines of the lists among the children of an item
NestedListLines(kids, d) ==
  IF kids = <<>> THEN <<>>
  ELSE (IF Head(kids).name \in {"ul", "ol"} THEN ItemLines(Head(kids).kids, d) ELSE <<>>)
         \o NestedListLines(Tail(kids), d)

\* C21: a list visited at indent_level k visits each direct item at k+1; an
\* item visited at k emits "  "*(k-1) + "- " + text and then visits its direct
\* nested lists at k+1. Hence an item under d nested lists (d = 1 for a list
\* reached at indent_level 0) is emitted with 4*(d-1) leading spaces, with
\* "- " for ordered and unordered lists alike, before the lines of its nested
\* lists.
C21_ListItemsIndentByNesting ==
  /\ [](IsListPage =>
          /\ vpc = "walk" =>
               /\ Len(markdown_lines) <= Len(ItemLines(PageList.kids, 1))
               /\ markdown_lines = SubSeq(ItemLines(PageList.kids, 1), 1, Len(markdown_lines))
          /\ vpc = "done" => markdown_lines = ItemLines(PageList.kids, 1))
  /\ [][(vpc = "walk" /\ stack # <<>> /\ Head(stack).node.name \in {"ul", "ol", "li"}) =>
          LET n == Head(stack).node
              k == Head(stack).indent_level
              below == IF n.name = "li" THEN {"ul", "ol"} ELSE {"li"}
          IN /\ Len(stack') = Len(stack) - 1 + Len(DirectChildren(n, below))
             /\ \A i \in 1..Len(DirectChildren(n, below)) :
                  /\ stack'[i].node = DirectChildren(n, below)[i]
                  /\ stack'[i].indent_level = k + 1
             /\ markdown_lines' =
                  IF n.name = "li"
                  THEN Append(markdown_lines,
                              Repeat(<<" ", " ">>, k - 1) \o <<"-", " ">> \o GetText(n))
                  ELSE markdown_lines]_vars

\* the three-deep ordered list was converted: its innermost item has 8 leading
\* spaces and follows the lines of the items around it
C21_Witness ==
  /\ vpc = "done"
  /\ IsListPage
  /\ PageList = DeepList
  /\ markdown_lines = << <<"-", " ", "a", "b", "c", "e">>, <<" ", " ", " ", " ", "-", " ", "b", "c">>, <<" ", " ", " ", " ", " ", " ", " ", " ", "-", " ", "c">>, <<" ", " ", " ", " ", "-", " ", "e">>, <<"-", " ", "d">> >>

\* the node kinds whose branch emits the flattened text of the node
FlatKinds ==
  {"h1", "h2", "h3", "h4", "h5", "h6", "p", "li", "strong", "b", "em", "i", "a"}

RECURSIVE ExposedOfKids(_, _)
\* the nodes named in names (names of branches) that the walk reaches through
\* containers without a branch of their own, in document order
ExposedOfKids(kids, names) ==
  IF kids = <<>> THEN <<>>
  ELSE (IF Head(kids).name \in names THEN <<Head(kids)>>
        ELSE IF Head(kids).name \in BranchNames \cup {"#text"} THEN <<>>
        ELSE ExposedOfKids(Head(kids).kids, names))
         \o ExposedOfKids(Tail(kids), names)

\* the line has the shape the anchor branch writes: [text](url)
IsAnchorLine(ln) ==
  /\ Len(ln) >= 4
  /\ ln[1] = "[" /\ ln[Len(ln)] = ")"
  /\ Contains(ln, <<"]", "(">>)

\* the page, its script and style subtrees removed, is one block
IsOneBlockPage == BodyOf(soup) # None /\ Len(BodyOf(soup)[1].kids) = 1

\* C22: the line of a list item carries the flattened text of the item's
\* whole subtree, so the text of an item of a nested list is part of the line
\* of the item around it and is emitted again in its own line afterwards; a
\* node of a kind that emits flattened text (heading, paragraph, list item,
\* bold, italic, anchor) has none of its descendants visited except nested
\* lists of an item, so an image, anchor or table inside it gives no line and
\* no metadata entry: only those reached outside such nodes do.
C22_FlattenedKindsHideTheirDescendants ==
  vpc = "done" =>
    /\ Len(metadata.images) = Len(ExposedOfKids(BodyOf(soup)[1].kids, {"img"}))
    /\ Len(metadata.tables) = Len(ExposedOfKids(BodyOf(soup)[1].kids, {"table"}))
    /\ Cardinality({k \in 1..Len(markdown_lines) : IsAnchorLine(markdown_lines[k])}) =
         Len(ExposedOfKids(BodyOf(soup)[1].kids, {"a"}))
    /\ (IsOneBlockPage /\ OnlyBlock.name \in FlatKinds \ {"li"}) =>
         /\ Len(markdown_lines) <= 1
         /\ \A k \in 1..Len(markdown_lines) :
              /\ Contains(markdown_lines[k], GetText(OnlyBlock))
              /\ OnlyBlock.name # "a" => ~IsAnchorLine(markdown_lines[k])
              /\ ~IsImageLine(markdown_lines[k])
         /\ metadata.images = <<>>
         /\ metadata.tables = <<>>
    /\ (IsOneBlockPage /\ OnlyBlock = SampleList) =>
         markdown_lines = << <<"-", " ", "o", "n", "e", "t", "w", "o">>,
                             <<" ", " ", " ", " ", "-", " ", "t", "w", "o">>,
                             <<"-", " ", "x">> >>
    /\ (IsOneBlockPage /\ OnlyBlock.name \in {"ul", "ol"}) =>
         \A a \in 1..Len(DirectChildren(OnlyBlock, {"li"})) :
           LET outer == DirectChildren(OnlyBlock, {"li"})[a]
               nested == DescendantsOfKids(DirectChildren(outer, {"ul", "ol"}), {"li"})
           IN \E i \in 1..Len(markdown_lines) :
                   /\ markdown_lines[i] = <<"-", " ">> \o GetText(outer)
                   /\ \A b \in 1..Len(nested) :
                        /\ Contains(markdown_lines[i], GetText(nested[b]))
                        /\ \E j \in (i + 1)..Len(markdown_lines) :
                             /\ Contains(markdown_lines[j], <<"-", " ">> \o GetText(nested[b]))
                             /\ markdown_lines[j][1] = " "

\* an item that holds an image, an anchor and a table was converted to the
\* one line of its flattened text, with no metadata entry
C22_Witness ==
  /\ vpc = "done"
  /\ IsOneBlockPage
  /\ OnlyBlock.name = "ul"
  /\ Descendants(OnlyBlock, {"img"}) # <<>>
  /\ Descendants(OnlyBlock, {"table"}) # <<>>
  /\ markdown_lines = << <<"-", " ", "o", "n", "e", "t", "h", "e", "r", "e", "c">> >>
  /\ metadata.images = <<>>
  /\ metadata.tables = <<>>

(***************************************************************************)
(* WebScraper.scrape: the loop over self.start_urls; each fetched page is  *)
(* converted by the _parse_content machine above.                          *)
(***************************************************************************)
\* the response texts a server returns: a page with an image, a page with a
\* heading, a fragment without body element, and an empty response
ScrapePages ==
  { Doc(<<Img(Some(<<"a", ".", "p", "n", "g">>), Some(<<"p", "i", "c">>))>>),
    Doc(<<SampleHeading>>),
    Fragment(<<Tag("p", <<TextNode(<<"H", "i", " ">>)>>)>>),
    Fragment(<<>>) }

\* a start URL with what fetching it gives: None for a RequestException raised
\* by requests.get or raise_for_status, else the text of the response
ScrapeTargets ==
  {[url |-> u, response |-> r] : u \in BaseUrls, r \in {None} \cup {Some(pg) : pg \in ScrapePages}}

InitScrape ==
  /\ \E targets \in SeqsUpTo(ScrapeTargets, MaxUrls) :
       /\ start_urls = [k \in 1..Len(targets) |-> targets[k].url]
       /\ responses = [k \in 1..Len(targets) |-> targets[k].response]
  /\ url_idx = 0
  /\ documents = <<>>
  /\ spc = "call"
  /\ html = <<>>
  /\ soup = <<>>
  /\ base_url = <<>>
  /\ stack = <<>>
  /\ markdown_lines = <<>>
  /\ metadata = <<>>
  /\ markdown_content = <<>>
  /\ vpc = "idle"
  /\ ChunkIdle
  /\ ParseIdle

\* scrape, lines 47-48
ScrapeEnter ==
  /\ spc = "call"
  /\ documents' = <<>>
  /\ url_idx' = 0
  /\ spc' = "loop"
  /\ UNCHANGED <<start_urls, responses>>
  /\ UNCHANGED <<html, soup, base_url, stack, markdown_lines, metadata, markdown_content, vpc>>
  /\ UNCHANGED <<chunkVars, parseVars>>

\* scrape, lines 51-54 and 59-60: requests.get or raise_for_status raises a
\* RequestException, which is logged; the loop goes on with the next URL
ScrapeRequestFails ==
  /\ spc = "loop"
  /\ url_idx < Len(start_urls)
  /\ responses[url_idx + 1] = None
  /\ url_idx' = url_idx + 1
  /\ UNCHANGED <<start_urls, responses, documents, spc>>
  /\ UNCHANGED <<html, soup, base_url, stack, markdown_lines, metadata, markdown_content, vpc>>
  /\ UNCHANGED <<chunkVars, parseVars>>

\* scrape, lines 53-55: the response is there and _parse_content is called
ScrapeRequestOk ==
  /\ spc = "loop"
  /\ url_idx < Len(start_urls)
  /\ responses[url_idx + 1] # None
  /\ html' = responses[url_idx + 1][1]
  /\ soup' = responses[url_idx + 1][1]
  /\ base_url' = start_urls[url_idx + 1]
  /\ stack' = <<>>
  /\ markdown_lines' = <<>>
  /\ metadata' = <<>>
  /\ markdown_content' = <<>>
  /\ vpc' = "call"
  /\ spc' = "parse"
  /\ UNCHANGED <<start_urls, responses, url_idx, documents>>
  /\ UNCHANGED <<chunkVars, parseVars>>

\* scrape, lines 55-58: _parse_content has returned, the document is appended
ScrapeAppend ==
  /\ spc = "parse"
  /\ vpc = "done"
  /\ documents' = Append(documents, [content |-> markdown_content, metadata |-> metadata])
  /\ url_idx' = url_idx + 1
  /\ spc' = "loop"
  /\ UNCHANGED <<start_urls, responses>>
  /\ UNCHANGED <<html, soup, base_url, stack, markdown_lines, metadata, markdown_content, vpc>>
  /\ UNCHANGED <<chunkVars, parseVars>>

\* scrape, lines 55 and 59: _parse_content has raised an error that is not a
\* RequestException; the except clause does not catch it and it leaves scrape,
\* so that no list is returned
ScrapeRaises ==
  /\ spc = "parse"
  /\ vpc = "raised"
  /\ spc' = "raised"
  /\ UNCHANGED <<start_urls, responses, url_idx, documents>>
  /\ UNCHANGED <<html, soup, base_url, stack, markdown_lines, metadata, markdown_content, vpc>>
  /\ UNCHANGED <<chunkVars, parseVars>>

\* scrape, line 62
ScrapeReturn ==
  /\ spc = "loop"
  /\ url_idx = Len(start_urls)
  /\ spc' = "done"
  /\ UNCHANGED <<start_urls, responses, url_idx, documents>>
  /\ UNCHANGED <<html, soup, base_url, stack, markdown_lines, metadata, markdown_content, vpc>>
  /\ UNCHANGED <<chunkVars, parseVars>>

NextScrape ==
  \/ ScrapeEnter
  \/ ScrapeRequestFails
  \/ ScrapeRequestOk
  \/ ParseContentEnter
  \/ ParseContentNoBody
  \/ HtmlToMarkdown
  \/ ParseContentReturn
  \/ ScrapeAppend
  \/ ScrapeRaises
  \/ ScrapeReturn

SpecScrape == InitScrape /\ [][NextScrape]_vars

(***************************************************************************)
(* Claims about WebScraper.scrape.                                         *)
(***************************************************************************)
\* the start URLs whose fetch gave a response, in start_urls order
FetchedUrls ==
  LET idx == SelectSeq([k \in 1..Len(start_urls) |-> k], LAMBDA k : responses[k] # None)
  IN [i \in 1..Len(idx) |-> start_urls[idx[i]]]

\* C23: for any list of start URLs and any pattern of per-URL failures,
\* scrape() returns one document for each URL that was fetched, in start_urls
\* order; a URL whose processing fails gives no document and never keeps the
\* documents of the URLs before and after it from being returned.
C23_OneDocumentPerFetchedUrl ==
  /\ spc # "raised"
  /\ spc = "done" =>
       /\ Len(documents) = Len(FetchedUrls)
       /\ \A k \in 1..Len(documents) : documents[k].metadata.urls = FetchedUrls[k]

=============================================================================
